---- MODULE Spec2Model ----
(***************************************************************************)
(* ESPHome native API client: the Connection (TCP socket, liveness timers, *)
(* reconnect loop), the EncryptedConnection variant and the ESPHomeClient  *)
(* handshake driver that listens to it.                                    *)
(*                                                                         *)
(* The program runs on one event loop: every action below is one callback  *)
(* (a socket event, a timer, a user call) run to completion, together with *)
(* the promise continuations it releases.  The fields of the objects are   *)
(* the variables; handlers are operators from a program state record to    *)
(* the next one, composed the way the code calls them.                     *)
(***************************************************************************)
EXTENDS Naturals, Integers, Sequences, FiniteSets

\* ------------------------------------------------------------- bounds
\* pending waitForMessage waiters the client may hold at once
MaxWaiters == 2
\* superseded sockets that are still open with their handlers attached
MaxOrphans == 1
\* largest pingInterval / pingTimeout (in clock ticks) a configuration draws
MaxPing == 2

\* most frames in a well-formed stream
MaxFrames == 2
\* largest chunk handed to addData, besides a chunk with all remaining bytes
MaxChunk == 3
\* entity keys the peer can describe: 1..MaxKeys
MaxKeys == 2
\* callbacks the application can register: 1..MaxCallbacks
MaxCallbacks == 2
\* NoiseEncryption.initialize() calls that may await loadNoise() at once
MaxInit == 3
\* whole frames in one chunk read from the socket
MaxBatch == 3

\* ---------------------------------------------------------- constants
\* pRetry retries of Connection.connect when options.reconnect is set
Retries == 3

VARIABLES
  \* configuration (ConnectionOptions)
  encrypted,          \* options.encryptionKey given: EncryptedConnection is used
  password,           \* options.password is non-empty
  pingInterval,
  pingTimeout,
  \* Connection / EncryptedConnection fields
  socket,             \* this.socket # null
  connected,          \* state.connected
  authenticated,      \* state.authenticated
  apiVersion,         \* state.apiVersion is present
  stateChange,        \* last step: the <<connected, authenticated>> of the
                      \* states its `stateChange` events carried
  serverInfo,         \* state.serverInfo is present
  reconnect,          \* options.reconnect
  isReconnecting,
  isDestroyed,
  expectedDisconnect,
  hasDeepSleep,
  reconnectTimer,     \* the reconnect timeout is armed
  pingTimer,          \* ticks until the ping interval fires, -1: not armed
  pingTimeoutTimer,   \* ticks until the ping timeout fires, -1: not armed
  \* Connection.connect() calls in flight (the pRetry loop of each)
  manual,             \* the call made by ESPHomeClient.connect
  recon,              \* the call made by the reconnect timer callback
  orphans,            \* sockets replaced in this.socket while still open
  \* ESPHomeClient fields
  waiters,            \* waitForMessage handlers, in registration order
  isAuthenticating,
  clientConnect,      \* the ESPHomeClient.connect() promise
  entities,           \* the ESPHomeClient.entities map: <<key, kind>> pairs
  stateSubscriptions, \* the callbacks of subscribeStates, in insertion order
  logSubscriptions,   \* the callbacks of subscribeLogs, in insertion order
  throwing,           \* client events with a listener attached that throws
  \* the peer's side of the current socket
  wire,               \* requests written and not yet answered
  pingPending,        \* a PingRequest was written and no PingResponse read since
  peerListed,         \* descriptions the peer sent for the oldest ListEntitiesRequest
  peerSubs,           \* the subscriptions the peer was asked for on this socket
  \* what the last step did
  out,                \* frames written to the socket by the last step
  ev,                 \* connect, disconnect and connected events of the last step
  ret,                \* outcome of the API call the last step made
  evExpected,         \* isExpectedDisconnect() as the step's `disconnect` listeners saw it
  thrown,             \* errors the handshake of the last step threw
  delivered,          \* types of the `message` events the last step emitted
  listed,             \* the listEntities() calls the last step resolved
  invoked,            \* subscription callbacks the last step invoked, with the message
  \* history
  connSinceDisc,      \* a `connect` event was emitted since the last `disconnect`
  lost,               \* the connection was lost without a local disconnect()
  dsDisc,             \* a deep-sleep DisconnectRequest was handled, no connect() since
  rcvd,               \* response types read on the latest socket
  nConnected,         \* `connected` events emitted for the latest socket
  pwRejected,         \* ConnectResponse{invalidPassword} reached authenticate
  pingAge,            \* ticks since the oldest unanswered PingRequest
  oldWaiters,         \* how many of the waiters (the first ones) were registered
                      \* before the latest socket connected
  listSeen,           \* per pending listEntities(): the descriptions read since
  \* ProtocolHandler (the frame codec), fed byte by byte
  buffer,             \* ProtocolHandler.buffer
  fault,              \* the last addData call threw
  messages,           \* the frames the last addData call returned
  stream,             \* the bytes the peer sends, in order
  pos,                \* how many of them were passed to addData so far
  got,                \* the frames returned by all addData calls so far
  calls,              \* addData calls made so far (counted up to 2)
  varintLimited,      \* the varint package in the build gives up after 8 bytes
  \* NoiseEncryption
  noise               \* its fields, the initialize() calls awaiting loadNoise()
                      \* and what the session (since construction or reset())
                      \* has done so far

vars == << encrypted, password, pingInterval, pingTimeout, socket, connected,
           authenticated, reconnect, isReconnecting, isDestroyed,
           expectedDisconnect, hasDeepSleep, reconnectTimer, pingTimer,
           pingTimeoutTimer, manual, recon, orphans, waiters, isAuthenticating,
           clientConnect, wire, pingPending, out, ev, ret, connSinceDisc, lost,
           dsDisc, rcvd, nConnected, pwRejected, pingAge, evExpected,
           buffer, fault, messages, stream, pos, got, calls, varintLimited,
           entities, peerListed, listed, listSeen, stateSubscriptions,
           logSubscriptions, throwing, peerSubs, invoked, thrown, delivered,
           apiVersion, serverInfo, noise, oldWaiters, stateChange >>

\* The program state as one record, so that handlers compose.
Cur ==
  [ encrypted |-> encrypted, password |-> password,
    pingInterval |-> pingInterval, pingTimeout |-> pingTimeout,
    socket |-> socket, connected |-> connected, authenticated |-> authenticated,
    reconnect |-> reconnect, isReconnecting |-> isReconnecting,
    isDestroyed |-> isDestroyed, expectedDisconnect |-> expectedDisconnect,
    hasDeepSleep |-> hasDeepSleep, reconnectTimer |-> reconnectTimer,
    pingTimer |-> pingTimer, pingTimeoutTimer |-> pingTimeoutTimer,
    manual |-> manual, recon |-> recon, orphans |-> orphans,
    waiters |-> waiters, isAuthenticating |-> isAuthenticating,
    clientConnect |-> clientConnect, wire |-> wire, pingPending |-> pingPending,
    out |-> <<>>, ev |-> <<>>, ret |-> "none", evExpected |-> {},
    connSinceDisc |-> connSinceDisc, lost |-> lost, dsDisc |-> dsDisc,
    rcvd |-> rcvd, nConnected |-> nConnected, pwRejected |-> pwRejected,
    pingAge |-> pingAge,
    buffer |-> buffer, fault |-> fault, messages |-> messages,
    stream |-> stream, pos |-> pos, got |-> got, calls |-> calls,
    varintLimited |-> varintLimited,
    entities |-> entities, peerListed |-> peerListed,
    listed |-> <<>>, listSeen |-> listSeen,
    stateSubscriptions |-> stateSubscriptions,
    logSubscriptions |-> logSubscriptions, throwing |-> throwing,
    peerSubs |-> peerSubs, invoked |-> <<>>, thrown |-> {},
    delivered |-> <<>>, apiVersion |-> apiVersion, serverInfo |-> serverInfo,
    noise |-> noise, oldWaiters |-> oldWaiters, stateChange |-> {} ]

Commit(p) ==
  /\ encrypted' = p.encrypted /\ password' = p.password
  /\ pingInterval' = p.pingInterval /\ pingTimeout' = p.pingTimeout
  /\ socket' = p.socket /\ connected' = p.connected
  /\ authenticated' = p.authenticated /\ reconnect' = p.reconnect
  /\ isReconnecting' = p.isReconnecting /\ isDestroyed' = p.isDestroyed
  /\ expectedDisconnect' = p.expectedDisconnect
  /\ hasDeepSleep' = p.hasDeepSleep /\ reconnectTimer' = p.reconnectTimer
  /\ pingTimer' = p.pingTimer /\ pingTimeoutTimer' = p.pingTimeoutTimer
  /\ manual' = p.manual /\ recon' = p.recon /\ orphans' = p.orphans
  /\ waiters' = p.waiters /\ isAuthenticating' = p.isAuthenticating
  /\ clientConnect' = p.clientConnect /\ wire' = p.wire
  /\ pingPending' = p.pingPending /\ out' = p.out /\ ev' = p.ev
  /\ ret' = p.ret /\ connSinceDisc' = p.connSinceDisc /\ lost' = p.lost
  /\ dsDisc' = p.dsDisc /\ rcvd' = p.rcvd /\ nConnected' = p.nConnected
  /\ pwRejected' = p.pwRejected /\ pingAge' = p.pingAge
  /\ evExpected' = p.evExpected
  /\ buffer' = p.buffer /\ fault' = p.fault /\ messages' = p.messages
  /\ stream' = p.stream /\ pos' = p.pos /\ got' = p.got /\ calls' = p.calls
  /\ varintLimited' = p.varintLimited
  /\ entities' = p.entities /\ peerListed' = p.peerListed
  /\ listed' = p.listed /\ listSeen' = p.listSeen
  /\ stateSubscriptions' = p.stateSubscriptions
  /\ logSubscriptions' = p.logSubscriptions /\ throwing' = p.throwing
  /\ peerSubs' = p.peerSubs /\ invoked' = p.invoked /\ thrown' = p.thrown
  /\ delivered' = p.delivered
  /\ apiVersion' = p.apiVersion /\ serverInfo' = p.serverInfo
  /\ noise' = p.noise /\ oldWaiters' = p.oldWaiters
  /\ stateChange' = p.stateChange

\* The configurations explored: a password with the ping timeout shorter than
\* the ping interval (as with the defaults, 20 s and 5 s), and no password
\* with the timeout longer than the interval.
Configs ==
  { [password |-> TRUE, pingInterval |-> MaxPing, pingTimeout |-> 1],
    [password |-> FALSE, pingInterval |-> 1, pingTimeout |-> MaxPing] }

NoCall == [phase |-> "none", retries |-> 0, attempts |-> 0]

\* Requests the peer answers; every other frame is only written.
Answered == {"HelloRequest", "ConnectRequest", "DeviceInfoRequest",
             "ListEntitiesRequest"}

Count(e, s) == Cardinality({i \in 1..Len(s) : s[i] = e})

\* the entity descriptions ESPHomeClient.handleMessage routes to the catalog
BasicEntityTypes ==
  {"ListEntitiesBinarySensorResponse", "ListEntitiesSensorResponse",
   "ListEntitiesSwitchResponse", "ListEntitiesLightResponse",
   "ListEntitiesTextSensorResponse", "ListEntitiesFanResponse",
   "ListEntitiesCoverResponse"}

\* the other ListEntities<Kind>Response members of MessageType
AdditionalEntityTypes ==
  {"ListEntitiesServicesResponse", "ListEntitiesCameraResponse",
   "ListEntitiesClimateResponse", "ListEntitiesNumberResponse",
   "ListEntitiesSelectResponse", "ListEntitiesSirenResponse",
   "ListEntitiesLockResponse", "ListEntitiesButtonResponse",
   "ListEntitiesMediaPlayerResponse", "ListEntitiesAlarmControlPanelResponse",
   "ListEntitiesTextResponse", "ListEntitiesDateResponse",
   "ListEntitiesTimeResponse", "ListEntitiesEventResponse",
   "ListEntitiesValveResponse", "ListEntitiesDateTimeResponse",
   "ListEntitiesUpdateResponse"}

EntityResponseTypes == BasicEntityTypes \cup AdditionalEntityTypes

\* the kinds of entity the device of the model describes
PeerKinds ==
  {"ListEntitiesSwitchResponse", "ListEntitiesSensorResponse",
   "ListEntitiesClimateResponse"}

\* the state messages ESPHomeClient.handleMessage routes to the subscribers
StateTypes ==
  {"BinarySensorStateResponse", "SensorStateResponse", "SwitchStateResponse",
   "TextSensorStateResponse", "LightStateResponse", "FanStateResponse",
   "CoverStateResponse"}

\* the channel of the kind-specific event of a state message
StateEvent(type) ==
  CASE type = "BinarySensorStateResponse" -> "binarySensorState"
    [] type = "SensorStateResponse" -> "sensorState"
    [] type = "SwitchStateResponse" -> "switchState"
    [] type = "TextSensorStateResponse" -> "textSensorState"
    [] type = "LightStateResponse" -> "lightState"
    [] type = "FanStateResponse" -> "fanState"
    [] OTHER -> "coverState"

\* the kinds of state message the device of the model sends
PeerStateKinds ==
  {"SwitchStateResponse", "SensorStateResponse", "ClimateStateResponse"}

\* Set.add(x) and Set.delete(x) on a Set kept in insertion order
SetAdd(set, x) ==
  IF \E i \in 1..Len(set) : set[i] = x THEN set ELSE Append(set, x)

SetDelete(set, x) == SelectSeq(set, LAMBDA y : y # x)

\* Map.set(k, v) on a map kept as a set of <<key, value>> pairs
MapSet(map, k, v) == {e \in map : e[1] # k} \cup {<<k, v>>}

\* ------------------------------------------------ Connection: events
\* The listeners ESPHomeClient attached in its constructor are gone once
\* destroy() has run removeAllListeners().
Listening(p) == ~p.isDestroyed

\* ESPHomeClient.connect's once('error') handler
clientError(p) ==
  IF Listening(p) /\ p.clientConnect = "hs"
    THEN [p EXCEPT !.clientConnect = "idle", !.ret = "connect:error",
                   !.pwRejected = FALSE]
    ELSE p

\* emit('error'): the client forwards it to a pending connect()
emitError(p) == clientError(p)

emitDisconnect(p) ==
  [p EXCEPT !.ev = Append(@, "disconnect"), !.connSinceDisc = FALSE,
            !.evExpected = @ \cup {p.expectedDisconnect}]

\* ------------------------------------------------ Connection: timers
stopPingTimeoutTimer(p) == [p EXCEPT !.pingTimeoutTimer = -1]

stopPingTimer(p) == stopPingTimeoutTimer([p EXCEPT !.pingTimer = -1])

startPingTimeoutTimer(p) ==
  [stopPingTimeoutTimer(p) EXCEPT !.pingTimeoutTimer = p.pingTimeout]

handlePongResponse(p) == stopPingTimeoutTimer(p)

\* ------------------------------------------------ Connection: state
cleanup(p) ==
  LET q == [stopPingTimer(p) EXCEPT !.reconnectTimer = FALSE]
  IN IF q.socket
       THEN [q EXCEPT !.socket = FALSE, !.wire = <<>>, !.pingPending = FALSE,
                      !.pingAge = 0, !.peerListed = {}, !.peerSubs = {}]
       ELSE q

updateState(p, c, a) ==
  [p EXCEPT !.connected = c, !.authenticated = a,
            !.stateChange = IF c # p.connected \/ a # p.authenticated
                              THEN @ \cup {<<c, a>>} ELSE @]

setAuthenticated(p, a) == updateState(p, p.connected, a)

disconnect(p) ==
  LET q == emitDisconnect(updateState(cleanup(p), FALSE, FALSE))
  IN [q EXCEPT !.expectedDisconnect = FALSE, !.lost = FALSE]

scheduleReconnect(p) ==
  IF p.isReconnecting \/ p.isDestroyed THEN p
  ELSE [p EXCEPT !.isReconnecting = TRUE, !.reconnectTimer = TRUE]

handleDisconnect(p) ==
  LET wasConnected == p.connected
      q == updateState(cleanup(p), FALSE, FALSE)
      r == IF wasConnected THEN [emitDisconnect(q) EXCEPT !.lost = TRUE] ELSE q
  IN IF r.reconnect /\ ~r.isDestroyed /\ ~r.isReconnecting
       THEN scheduleReconnect(r) ELSE r

\* sendMessage with the socket check left out
sendOkConnectedOnly(p) == p.connected

\* the condition under which sendMessage does not throw
sendOk(p) == p.socket /\ p.connected

\* sendMessage past its guard: the frame is written to this.socket
sendMessage(p, type) ==
  LET q == [p EXCEPT !.out = Append(@, type)]
  IN IF type \in Answered THEN [q EXCEPT !.wire = Append(@, type)]
     ELSE IF type = "PingRequest"
       THEN [q EXCEPT !.pingPending = TRUE,
                      !.pingAge = IF p.pingPending THEN @ ELSE 0]
     ELSE q

setDeepSleepMode(p, enabled) ==
  LET q == [p EXCEPT !.hasDeepSleep = enabled]
  IN IF enabled /\ q.connected THEN stopPingTimer(q) ELSE q

\* startPingTimer with the deep-sleep check left out
startPingTimerAlways(p) ==
  [stopPingTimer(p) EXCEPT !.pingTimer = p.pingInterval]

startPingTimer(p) ==
  IF p.hasDeepSleep THEN p
  ELSE [stopPingTimer(p) EXCEPT !.pingTimer = p.pingInterval]

\* handleDisconnectRequest that tears the socket down before it answers
handleDisconnectRequestLate(p) ==
  LET a == disconnect([p EXCEPT !.expectedDisconnect = TRUE])
  IN IF sendOk(a) THEN sendMessage(a, "DisconnectResponse") ELSE a

handleDisconnectRequest(p) ==
  LET a == IF sendOk(p) THEN sendMessage(p, "DisconnectResponse") ELSE p
      b == stopPingTimeoutTimer(stopPingTimer([a EXCEPT !.expectedDisconnect = TRUE]))
      c == IF b.hasDeepSleep THEN [b EXCEPT !.reconnect = FALSE, !.dsDisc = TRUE]
           ELSE b
      d == disconnect(c)
  IN [d EXCEPT !.dsDisc = c.dsDisc]

destroy(p) == cleanup([p EXCEPT !.isDestroyed = TRUE, !.lost = FALSE])

\* new NoiseEncryption(key): no handshake state (0 = null), no ciphers.
\* action is what the handshake state object accepts next; pending counts the
\* initialize() calls awaiting loadNoise(); loaded is globalNoiseInstance;
\* created and splits count the handshake states created and the cipher
\* assignments made since construction or the last reset(); stale counts the
\* awaiting initialize() calls that were made before the last reset().
NewNoise ==
  [ handshakeState |-> 0, action |-> "none", sendCipher |-> 0,
    receiveCipher |-> 0, handshakeComplete |-> FALSE, initialized |-> FALSE,
    pending |-> 0, stale |-> 0, loaded |-> FALSE, created |-> 0,
    splits |-> 0 ]

\* every field as the constructors leave it
Constructed ==
  /\ socket = FALSE /\ connected = FALSE /\ authenticated = FALSE
  /\ isReconnecting = FALSE /\ isDestroyed = FALSE
  /\ expectedDisconnect = FALSE /\ hasDeepSleep = FALSE
  /\ reconnectTimer = FALSE /\ pingTimer = -1 /\ pingTimeoutTimer = -1
  /\ manual = NoCall /\ recon = NoCall /\ orphans = 0
  /\ waiters = <<>> /\ isAuthenticating = FALSE /\ clientConnect = "idle"
  /\ wire = <<>> /\ pingPending = FALSE
  /\ out = <<>> /\ ev = <<>> /\ ret = "none" /\ evExpected = {}
  /\ connSinceDisc = FALSE /\ lost = FALSE /\ dsDisc = FALSE
  /\ rcvd = {} /\ nConnected = 0 /\ pwRejected = FALSE /\ pingAge = 0
  /\ buffer = <<>> /\ fault = FALSE /\ messages = <<>>
  /\ pos = 0 /\ got = <<>> /\ calls = 0
  /\ entities = {} /\ peerListed = {} /\ listed = <<>> /\ listSeen = <<>>
  /\ stateSubscriptions = <<>> /\ logSubscriptions = <<>> /\ throwing = {}
  /\ peerSubs = {} /\ invoked = <<>> /\ thrown = {} /\ delivered = <<>>
  /\ apiVersion = FALSE /\ serverInfo = FALSE
  /\ noise = NewNoise /\ oldWaiters = 0 /\ stateChange = {}

Init ==
  /\ encrypted \in BOOLEAN
  /\ \E c \in Configs : /\ password = c.password
                        /\ pingInterval = c.pingInterval
                        /\ pingTimeout = c.pingTimeout
  /\ reconnect \in BOOLEAN
  /\ stream = <<>> /\ varintLimited = FALSE
  /\ Constructed

\* ------------------------------------------- ESPHomeClient: handshake
\* A handshake step's outcome: the state it leaves and whether it threw.
Ok(p) == [p |-> p, failed |-> FALSE]
Fail(p) == [p |-> p, failed |-> TRUE]

waitForMessage(p, type) == [p EXCEPT !.waiters = Append(@, type)]

\* the once('connected') handler of a pending ESPHomeClient.connect()
emitConnected(p) ==
  LET q == [p EXCEPT !.ev = Append(@, "connected"),
                     !.nConnected = IF @ < 2 THEN @ + 1 ELSE @]
  IN IF q.clientConnect = "hs"
       THEN [q EXCEPT !.clientConnect = "idle", !.ret = "connect:resolved",
                      !.pwRejected = FALSE]
       ELSE q

\* requestDeviceInfo up to its await
requestDeviceInfo(p) ==
  IF sendOk(p)
    THEN Ok(waitForMessage(sendMessage(p, "DeviceInfoRequest"), "DeviceInfoResponse"))
    ELSE Fail(p)

\* decodeMessage('DeviceInfoResponse', data): the classes pbjs generates
\* (without --keep-case) name the proto field has_deep_sleep hasDeepSleep
decodeDeviceInfoResponse(m) == [hasDeepSleep |-> m.flag]

\* info.<name> || false
Field(info, name) == IF name \in DOMAIN info THEN info[name] ELSE FALSE

\* requestDeviceInfo from its await on, and the end of performHandshake
requestDeviceInfoResume(p, m) ==
  LET info == decodeDeviceInfoResponse(m)
  IN Ok(emitConnected(IF Field(info, "has_deep_sleep")
                        THEN setDeepSleepMode(p, TRUE) ELSE p))

\* performHandshake after authentication: mark authenticated, ask device info
markAuthenticated(p) == requestDeviceInfo(setAuthenticated(p, TRUE))

\* authenticate without its re-entrancy guard
authenticateUnguarded(p) ==
  IF sendOk(p)
    THEN Ok(waitForMessage(
              sendMessage([p EXCEPT !.isAuthenticating = TRUE], "ConnectRequest"),
              "ConnectResponse"))
    ELSE Fail(p)

\* authenticate up to its await
authenticate(p) ==
  IF p.isAuthenticating
    THEN Fail([p EXCEPT !.thrown = @ \cup {"Already authenticating"}])
  ELSE IF sendOk(p)
    THEN Ok(waitForMessage(
              sendMessage([p EXCEPT !.isAuthenticating = TRUE], "ConnectRequest"),
              "ConnectResponse"))
    ELSE Fail(p)

\* authenticate from its await on: m.flag is invalidPassword
authenticateResume(p, m) ==
  LET q == [p EXCEPT !.isAuthenticating = FALSE]
  IN IF m.flag
       THEN Fail([q EXCEPT !.pwRejected = (q.clientConnect = "hs")])
       ELSE markAuthenticated(q)

\* performHandshake up to its first await (sendHelloRequest, waitForMessage)
performHandshake(p) ==
  IF sendOk(p)
    THEN Ok(waitForMessage(sendMessage(p, "HelloRequest"), "HelloResponse"))
    ELSE Fail(p)

\* ESPHomeClient.handleHelloResponse: setApiVersion, and setServerInfo when
\* the response names the server (m.flag)
handleHelloResponse(p, m) ==
  [p EXCEPT !.apiVersion = TRUE, !.serverInfo = IF m.flag THEN TRUE ELSE @,
            !.stateChange = IF ~p.apiVersion \/ (m.flag /\ ~p.serverInfo)
                              THEN @ \cup {<<p.connected, p.authenticated>>}
                              ELSE @]

\* performHandshake after HelloResponse
performHandshakeResume(p, m) ==
  LET q == handleHelloResponse(p, m)
  IN IF q.password THEN authenticate(q) ELSE markAuthenticated(q)

\* ESPHomeClient.handleEntityResponse: entities.set(entity.key, entity)
handleEntityResponse(p, m) ==
  [p EXCEPT !.entities = MapSet(@, m.key, m.type), !.ev = Append(@, "entity")]

\* for (const callback of subscriptions) try { callback(x) } catch {}
notify(p, subs, m) ==
  [p EXCEPT !.invoked = @ \o [i \in 1..Len(subs) |-> <<subs[i], m.type, m.key>>]]

\* ESPHomeClient.handleStateResponse; threw: a listener of one of its two
\* events threw out of emit()
handleStateResponse(p, m) ==
  IF {StateEvent(m.type), "state"} \cap p.throwing # {}
    THEN [p |-> p, threw |-> TRUE]
    ELSE [p |-> notify(p, p.stateSubscriptions, m), threw |-> FALSE]

\* ESPHomeClient.handleLogResponse
handleLogResponse(p, m) ==
  IF "logs" \in p.throwing
    THEN [p |-> p, threw |-> TRUE]
    ELSE [p |-> notify(p, p.logSubscriptions, m), threw |-> FALSE]

\* ESPHomeClient.handleMessage, the `message` listener of the constructor;
\* what it throws rejects its promise, and the catch emits `error`
clientHandleMessage(p, m) ==
  LET r == CASE m.type \in StateTypes -> handleStateResponse(p, m)
             [] m.type = "SubscribeLogsResponse" -> handleLogResponse(p, m)
             [] m.type \in BasicEntityTypes ->
                  [p |-> handleEntityResponse(p, m), threw |-> FALSE]
             [] OTHER -> [p |-> p, threw |-> FALSE]
  IN IF r.threw THEN clientError(r.p) ELSE r.p

\* ESPHomeClient.subscribeStates(cb); cb = 0: no callback given
subscribeStates(p, cb) ==
  LET q == IF cb = 0 THEN p
           ELSE [p EXCEPT !.stateSubscriptions = SetAdd(@, cb)]
  IN IF sendOk(q)
       THEN [sendMessage(q, "SubscribeStatesRequest")
               EXCEPT !.ret = "send:ok", !.peerSubs = @ \cup {"states"}]
       ELSE [q EXCEPT !.ret = "send:NotConnected"]

\* ESPHomeClient.unsubscribeStates(cb)
unsubscribeStates(p, cb) ==
  IF cb = 0 THEN p ELSE [p EXCEPT !.stateSubscriptions = SetDelete(@, cb)]

\* ESPHomeClient.subscribeLogs(level, cb)
subscribeLogs(p, cb) ==
  LET q == IF cb = 0 THEN p
           ELSE [p EXCEPT !.logSubscriptions = SetAdd(@, cb)]
  IN IF sendOk(q)
       THEN [sendMessage(q, "SubscribeLogsRequest")
               EXCEPT !.ret = "send:ok", !.peerSubs = @ \cup {"logs"}]
       ELSE [q EXCEPT !.ret = "send:NotConnected"]

\* ESPHomeClient.unsubscribeLogs(cb)
unsubscribeLogs(p, cb) ==
  IF cb = 0 THEN p ELSE [p EXCEPT !.logSubscriptions = SetDelete(@, cb)]

\* ESPHomeClient.listEntities(): clear the catalog, send, await Done
listEntities(p) ==
  LET a == [p EXCEPT !.entities = {}]
  IN IF sendOk(a)
       THEN [waitForMessage(sendMessage(a, "ListEntitiesRequest"),
                            "ListEntitiesDoneResponse")
               EXCEPT !.ret = "list:pending", !.listSeen = Append(@, {})]
       ELSE [a EXCEPT !.ret = "list:NotConnected"]

\* listEntities after ListEntitiesDoneResponse: Array.from(entities.values())
listEntitiesResume(p) ==
  Ok([p EXCEPT !.ret = "list:resolved",
               !.listed = Append(@, [result |-> p.entities,
                                     seen |-> Head(p.listSeen)]),
               !.listSeen = Tail(@)])

\* the continuation of the waiter of type w that message m resolved
resume(p, w, m) ==
  CASE w = "HelloResponse" -> performHandshakeResume(p, m)
    [] w = "ConnectResponse" -> authenticateResume(p, m)
    [] w = "DeviceInfoResponse" -> requestDeviceInfoResume(p, m)
    [] w = "ListEntitiesDoneResponse" -> listEntitiesResume(p)
    [] OTHER -> Ok(p)

\* The continuations of the resolved waiters run in resolution order; the
\* rejections they raise reach performHandshake().catch only afterwards.
RECURSIVE resumeAll(_, _, _)
resumeAll(p, ws, m) ==
  IF ws = <<>> THEN [p |-> p, fails |-> 0]
  ELSE LET r == resume(p, Head(ws), m)
           rest == resumeAll(r.p, Tail(ws), m)
       IN [p |-> rest.p, fails |-> rest.fails + (IF r.failed THEN 1 ELSE 0)]

\* performHandshake().catch: connection.disconnect(), once per failed handshake
RECURSIVE handshakeFailed(_, _)
handshakeFailed(p, n) ==
  IF n = 0 THEN p ELSE handshakeFailed(disconnect(p), n - 1)

\* the `message` listeners: every waiter whose type matches is resolved
emitMessage(p, m) ==
  IF Listening(p)
    THEN [p |-> [clientHandleMessage(p, m)
                   EXCEPT !.waiters = SelectSeq(@, LAMBDA w : w # m.type),
                          !.oldWaiters =
                             Len(SelectSeq(SubSeq(p.waiters, 1, p.oldWaiters),
                                           LAMBDA w : w # m.type))],
          resolved |-> SelectSeq(p.waiters, LAMBDA w : w = m.type)]
    ELSE [p |-> p, resolved |-> <<>>]

\* Connection.handleMessage; threw: sendMessage threw inside it
handleMessage(p, m) ==
  CASE m.type = "PingRequest" ->
         IF sendOk(p)
           THEN [p |-> sendMessage(p, "PingResponse"), resolved |-> <<>>, threw |-> FALSE]
           ELSE [p |-> p, resolved |-> <<>>, threw |-> TRUE]
    [] m.type = "PingResponse" ->
         [p |-> handlePongResponse(p), resolved |-> <<>>, threw |-> FALSE]
    [] m.type = "DisconnectRequest" ->
         [p |-> handleDisconnectRequest(p), resolved |-> <<>>, threw |-> FALSE]
    [] OTHER ->
         LET e == emitMessage([p EXCEPT !.delivered = Append(@, m.type)], m)
         IN [p |-> e.p, resolved |-> e.resolved, threw |-> FALSE]

\* what the peer's frame does to the peer-side bookkeeping of the socket
readFrame(p, m) ==
  CASE m.type = "PingResponse" -> [p EXCEPT !.pingPending = FALSE, !.pingAge = 0]
    [] m.type \in {"HelloResponse", "DeviceInfoResponse"} ->
         [p EXCEPT !.wire = Tail(@), !.rcvd = @ \cup {m.type}]
    [] m.type = "ConnectResponse" ->
         [p EXCEPT !.wire = Tail(@),
                   !.rcvd = IF m.flag THEN @ ELSE @ \cup {"ConnectResponse"}]
    [] m.type \in EntityResponseTypes ->
         [p EXCEPT !.peerListed = @ \cup {<<m.key, m.type>>},
                   !.listSeen =
                      IF m.type \in BasicEntityTypes /\ Listening(p)
                        THEN [i \in DOMAIN @ |-> MapSet(@[i], m.key, m.type)]
                        ELSE @]
    [] m.type = "ListEntitiesDoneResponse" ->
         [p EXCEPT !.wire = Tail(@), !.peerListed = {}]
    [] OTHER -> p

\* the socket's 'data' handler for a chunk holding the one frame m
\* ("Garbage": a chunk on which the decoder throws)
dataHandler(p, m) ==
  IF m.type = "Garbage" THEN disconnect(emitError(p))
  ELSE LET h == handleMessage(readFrame(p, m), m)
           a == IF h.threw THEN disconnect(emitError(h.p)) ELSE h.p
           r == resumeAll(a, h.resolved, m)
       IN handshakeFailed(r.p, r.fails)

\* The continuations of the waiters a chunk resolved, each with its message.
RECURSIVE resumeEach(_, _)
resumeEach(p, rs) ==
  IF rs = <<>> THEN [p |-> p, fails |-> 0]
  ELSE LET r == resume(p, Head(rs)[1], Head(rs)[2])
           rest == resumeEach(r.p, Tail(rs))
       IN [p |-> rest.p, fails |-> rest.fails + (IF r.failed THEN 1 ELSE 0)]

\* for (const message of messages) this.handleMessage(message): the loop
\* ends at the first handleMessage that throws
RECURSIVE dispatch(_, _)
dispatch(p, ms) ==
  IF ms = <<>> THEN [p |-> p, resolved |-> <<>>, threw |-> FALSE]
  ELSE LET m == Head(ms)
           h == handleMessage(readFrame(p, m), m)
           rs == [i \in 1..Len(h.resolved) |-> <<h.resolved[i], m>>]
           rest == dispatch(h.p, Tail(ms))
       IN IF h.threw THEN [p |-> h.p, resolved |-> rs, threw |-> TRUE]
          ELSE [p |-> rest.p, resolved |-> rs \o rest.resolved,
                threw |-> rest.threw]

\* the socket's 'data' handler for a chunk holding the whole frames ms,
\* followed (bad) by bytes on which addData throws: addData then returns
\* nothing, the frames it had decoded are dropped with its local array
dataHandlerChunk(p, ms, bad) ==
  IF bad THEN disconnect(emitError(p))
  ELSE LET d == dispatch(p, ms)
           a == IF d.threw THEN disconnect(emitError(d.p)) ELSE d.p
           r == resumeEach(a, d.resolved)
       IN handshakeFailed(r.p, r.fails)

\* --------------------------------------------- Connection.connect
\* Connection.connect up to its await: who is the caller's slot
establishConnection(p, who) ==
  LET q == cleanup(p)
      c == [phase |-> "sock", retries |-> IF p.reconnect THEN Retries ELSE 0,
            attempts |-> 1]
  IN IF who = "manual" THEN [q EXCEPT !.manual = c] ELSE [q EXCEPT !.recon = c]

\* Connection.connect with the isDestroyed check left out
connectUnchecked(p, who) ==
  IF p.connected THEN [p |-> p, res |-> "already"]
  ELSE [p |-> establishConnection(p, who), res |-> "pending"]

connect(p, who) ==
  IF p.isDestroyed THEN [p |-> p, res |-> "destroyed"]
  ELSE IF p.connected THEN [p |-> p, res |-> "already"]
  ELSE [p |-> establishConnection(p, who), res |-> "pending"]

Call(p, who) == IF who = "manual" THEN p.manual ELSE p.recon

SetCall(p, who, c) ==
  IF who = "manual" THEN [p EXCEPT !.manual = c] ELSE [p EXCEPT !.recon = c]

\* what follows `await this.connect()` once the call has settled
connectSettled(p, who, ok) ==
  IF who = "manual"
    THEN IF ok THEN [p EXCEPT !.clientConnect = "hs"]
         ELSE [p EXCEPT !.clientConnect = "idle", !.ret = "connect:ConnectionError"]
    ELSE IF ok THEN [p EXCEPT !.isReconnecting = FALSE]
         ELSE scheduleReconnect([p EXCEPT !.isReconnecting = FALSE])

\* the socket.once('connect') handler of establishConnection
onSocketConnect(p, who) ==
  LET a == [p EXCEPT !.orphans = IF p.socket THEN @ + 1 ELSE @,
                     !.socket = TRUE, !.wire = <<>>, !.pingPending = FALSE,
                     !.pingAge = 0, !.rcvd = {}, !.nConnected = 0,
                     !.peerListed = {}, !.peerSubs = {},
                     !.oldWaiters = Len(p.waiters)]
      b == startPingTimer(updateState(a, TRUE, FALSE))
      c == [b EXCEPT !.ev = Append(@, "connect"), !.connSinceDisc = TRUE,
                     !.lost = FALSE]
      h == IF Listening(c) THEN performHandshake(c) ELSE Ok(c)
      d == connectSettled(SetCall(h.p, who, NoCall), who, TRUE)
  IN handshakeFailed(d, IF h.failed THEN 1 ELSE 0)

\* socket.once('error') or the connect timeout rejects the attempt.  With
\* retries left pRetry waits and runs establishConnection again (the wait
\* changes nothing but the time, so the step ends after the new attempt has
\* started); with none left connect() rejects.
onSocketFail(p, who) ==
  LET c == Call(p, who)
  IN IF c.retries > 0
       THEN SetCall(cleanup(p), who,
                    [c EXCEPT !.retries = @ - 1, !.attempts = @ + 1])
       ELSE connectSettled(SetCall(p, who, NoCall), who, FALSE)

\* ------------------------------------------------------------ actions
Callers == {"manual", "recon"}

\* frames the peer can have sent on the current socket (the flag of a
\* HelloResponse: it names the server, as every ESPHome device does)
Inbound ==
  {[type |-> t, flag |-> FALSE] :
     t \in {"PingRequest", "DisconnectRequest", "Garbage"}}
  \cup (IF pingPending THEN {[type |-> "PingResponse", flag |-> FALSE]} ELSE {})
  \cup (IF wire = <<>> THEN {}
        ELSE CASE Head(wire) = "HelloRequest" ->
                    {[type |-> "HelloResponse", flag |-> TRUE]}
               [] Head(wire) = "ConnectRequest" ->
                    {[type |-> "ConnectResponse", flag |-> f] : f \in BOOLEAN}
               [] Head(wire) = "ListEntitiesRequest" ->
                    {[type |-> t, flag |-> FALSE, key |-> k] :
                       <<k, t>> \in ((1..MaxKeys) \X PeerKinds) \ peerListed}
                    \cup {[type |-> "ListEntitiesDoneResponse", flag |-> FALSE]}
               [] OTHER ->
                    {[type |-> "DeviceInfoResponse", flag |-> f] : f \in BOOLEAN})
  \cup (IF "states" \in peerSubs
        THEN {[type |-> t, flag |-> FALSE, key |-> k] :
                t \in PeerStateKinds, k \in 1..MaxKeys}
        ELSE {})
  \cup (IF "logs" \in peerSubs
        THEN {[type |-> "SubscribeLogsResponse", flag |-> FALSE, key |-> 0]}
        ELSE {})

\* ESPHomeClient.connect(): Connection.connect() up to its first await.  A
\* second connect() while one is pending is made only on a destroyed client.
ClientConnect ==
  /\ ~encrypted
  /\ clientConnect = "idle" \/ isDestroyed
  /\ LET r == connect([Cur EXCEPT !.dsDisc = FALSE], "manual")
     IN Commit(CASE r.res = "destroyed" ->
                      [r.p EXCEPT !.ret = "connect:destroyed", !.dsDisc = dsDisc]
                 [] r.res = "already" ->
                      [r.p EXCEPT !.clientConnect = "hs", !.ret = "connect:pending"]
                 [] OTHER ->
                      [r.p EXCEPT !.clientConnect = "tcp", !.ret = "connect:pending"])

\* the 10 s handshake deadline of ESPHomeClient.connect()
ClientConnectTimeout ==
  /\ clientConnect = "hs"
  /\ Commit([Cur EXCEPT !.clientConnect = "idle", !.ret = "connect:timeout",
                        !.pwRejected = FALSE])

\* ESPHomeClient.disconnect()
ClientDisconnect ==
  /\ ~encrypted
  /\ Commit(disconnect(Cur))

\* ESPHomeClient.destroy()
ClientDestroy ==
  /\ ~encrypted
  /\ Commit([destroy(Cur) EXCEPT !.entities = {}, !.stateSubscriptions = <<>>,
                                  !.logSubscriptions = <<>>, !.throwing = {}])

\* a client operation that sends a non-handshake request (subscribeStates)
ClientSend ==
  /\ ~encrypted
  /\ Commit(IF sendOk(Cur)
              THEN [sendMessage(Cur, "SubscribeStatesRequest") EXCEPT !.ret = "send:ok"]
              ELSE [Cur EXCEPT !.ret = "send:NotConnected"])

SetDeepSleepMode(enabled) ==
  /\ ~encrypted
  /\ Commit(setDeepSleepMode(Cur, enabled))

SocketConnect(who) ==
  /\ Call(Cur, who).phase = "sock"
  /\ socket => orphans < MaxOrphans
  /\ ~isDestroyed => Len(waiters) < MaxWaiters
  /\ Commit(onSocketConnect(Cur, who))

SocketFail(who) ==
  /\ Call(Cur, who).phase = "sock"
  /\ Commit(onSocketFail(Cur, who))

\* the socket's 'close' or 'end' event
SocketClose ==
  /\ socket
  /\ Commit(handleDisconnect(Cur))

\* the 'close' event of a socket that was replaced in this.socket
OrphanClose ==
  /\ orphans > 0
  /\ Commit(handleDisconnect([Cur EXCEPT !.orphans = @ - 1]))

\* the socket's 'error' event
SocketError ==
  /\ socket
  /\ Commit(emitError(Cur))

\* the socket's 'data' event
SocketData ==
  /\ socket
  /\ \E m \in Inbound : Commit(dataHandler(Cur, m))

\* the reconnect timer's callback
ReconnectFire ==
  /\ reconnectTimer
  /\ LET p == [Cur EXCEPT !.reconnectTimer = FALSE]
         r == connect(p, "recon")
     IN Commit(IF p.isDestroyed THEN p
               ELSE CASE r.res = "destroyed" -> connectSettled(r.p, "recon", FALSE)
                      [] r.res = "already" -> connectSettled(r.p, "recon", TRUE)
                      [] OTHER -> r.p)

\* a waitForMessage deadline: the waiter is removed and its caller rejects
\* (a handshake fails, a listEntities() call rejects to its caller)
WaiterTimeout ==
  \E i \in 1..Len(waiters) :
    LET w == waiters[i]
        n == Count("ListEntitiesDoneResponse", SubSeq(waiters, 1, i))
        p == [Cur EXCEPT !.waiters = SubSeq(@, 1, i - 1) \o SubSeq(@, i + 1, Len(@)),
                         !.oldWaiters = IF i <= @ THEN @ - 1 ELSE @,
                         !.listSeen =
                            IF w = "ListEntitiesDoneResponse"
                              THEN SubSeq(@, 1, n - 1) \o SubSeq(@, n + 1, Len(@))
                              ELSE @,
                         !.isAuthenticating =
                            IF w = "ConnectResponse" THEN FALSE ELSE @]
    IN Commit(IF w = "ListEntitiesDoneResponse"
                THEN [p EXCEPT !.ret = "list:timeout"]
                ELSE handshakeFailed(p, 1))

\* the ping interval's callback
PingFire ==
  /\ pingTimer = 0
  /\ pingTimeoutTimer # 0
  /\ LET p == [Cur EXCEPT !.pingTimer = pingInterval]
     IN Commit(IF ~p.connected THEN stopPingTimer(p)
               ELSE IF sendOk(p)
                 THEN startPingTimeoutTimer(sendMessage(p, "PingRequest"))
                 ELSE handleDisconnect(p))

\* the ping timeout's callback
PingTimeoutFire ==
  /\ pingTimeoutTimer = 0
  /\ Commit(handleDisconnect([Cur EXCEPT !.pingTimeoutTimer = -1]))

\* the clock advances by one tick; a due timer fires first
Tick ==
  /\ pingTimer # 0 /\ pingTimeoutTimer # 0
  /\ pingTimer > 0 \/ pingTimeoutTimer > 0
  /\ Commit([Cur EXCEPT
       !.pingTimer = IF @ > 0 THEN @ - 1 ELSE @,
       !.pingTimeoutTimer = IF @ > 0 THEN @ - 1 ELSE @,
       !.pingAge = IF pingPending /\ @ <= MaxPing THEN @ + 1 ELSE @])

\* ------------------------------------------------ EncryptedConnection
\* EncryptedConnection.connect(): no socket is opened, the state is marked
encConnect(p) ==
  IF p.isDestroyed THEN [p EXCEPT !.ret = "connect:destroyed"]
  ELSE IF p.connected THEN [p EXCEPT !.ret = "connect:done"]
  ELSE [updateState(p, TRUE, p.authenticated) EXCEPT !.ret = "connect:done"]

\* EncryptedConnection.cleanup()
encCleanup(p) == IF p.socket THEN [p EXCEPT !.socket = FALSE] ELSE p

\* EncryptedConnection.disconnect()
encDisconnect(p) == emitDisconnect(updateState(encCleanup(p), FALSE, FALSE))

\* EncryptedConnection.sendMessage()
encSendMessage(p) ==
  IF ~p.socket \/ ~p.connected THEN [p EXCEPT !.ret = "send:NotConnected"]
  ELSE [p EXCEPT !.ret = "send:ok"]

\* EncryptedConnection.destroy()
encDestroy(p) == encCleanup([p EXCEPT !.isDestroyed = TRUE])

EncConnect == encrypted /\ Commit(encConnect(Cur))

EncDisconnect == encrypted /\ Commit(encDisconnect(Cur))

EncSend == encrypted /\ Commit(encSendMessage(Cur))

EncDestroy == encrypted /\ Commit(encDestroy(Cur))

EncSetAuthenticated(a) == encrypted /\ Commit(setAuthenticated(Cur, a))

Next ==
  \/ ClientConnect
  \/ ClientConnectTimeout
  \/ ClientDisconnect
  \/ ClientDestroy
  \/ ClientSend
  \/ \E b \in BOOLEAN : SetDeepSleepMode(b)
  \/ \E who \in Callers : SocketConnect(who)
  \/ \E who \in Callers : SocketFail(who)
  \/ SocketClose
  \/ OrphanClose
  \/ SocketError
  \/ SocketData
  \/ ReconnectFire
  \/ WaiterTimeout
  \/ PingFire
  \/ PingTimeoutFire
  \/ Tick
  \/ EncConnect
  \/ EncDisconnect
  \/ EncSend
  \/ EncDestroy
  \/ \E a \in BOOLEAN : EncSetAuthenticated(a)

Spec == Init /\ [][Next]_vars

\* ------------------------------------------------- ProtocolHandler
\* Bytes are 0..255; offsets are the code's (0-based), so byte k of a buffer
\* b is b[k + 1].
MAX_MESSAGE_SIZE == 1024 * 1024

\* varint.encode
RECURSIVE varintEncode(_)
varintEncode(n) ==
  IF n < 128 THEN <<n>> ELSE <<(n % 128) + 128>> \o varintEncode(n \div 128)

\* One step of varint.decode's `res += ...`.  The package shifts below 28
\* bits and multiplies above; every result of 2^28 or more is kept as 2^28
\* here (lengths are only compared with MAX_MESSAGE_SIZE and buffer sizes).
varintAdd(res, b, shift) ==
  LET bits == b % 128
      term == IF bits = 0 THEN 0
              ELSE IF shift < 28 THEN bits * (2 ^ shift) ELSE 2 ^ 28
  IN IF res + term > 2 ^ 28 THEN 2 ^ 28 ELSE res + term

\* varint.decode's loop: it throws (ok = FALSE) when it runs off the buffer
\* and, in the package versions that limit a varint, after the eighth byte
RECURSIVE varintRead(_, _, _, _, _, _)
varintRead(buf, offset, counter, shift, res, lim) ==
  IF counter >= Len(buf) \/ (lim /\ shift > 49)
    THEN [ok |-> FALSE, value |-> 0, bytes |-> 0]
    ELSE LET b == buf[counter + 1]
             r == varintAdd(res, b, shift)
         IN IF b >= 128 THEN varintRead(buf, offset, counter + 1, shift + 7, r, lim)
            ELSE [ok |-> TRUE, value |-> r, bytes |-> counter + 1 - offset]

\* varint.decode(buf, offset) and varint.decode.bytes
varintDecode(buf, offset, lim) == varintRead(buf, offset, offset, 0, 0, lim)

\* encodeMessage that writes the type varint before the length varint
encodeMessageTypeFirst(type, data) ==
  <<0>> \o varintEncode(type) \o varintEncode(Len(data)) \o data

encodeMessage(type, data) ==
  <<0>> \o varintEncode(Len(data)) \o varintEncode(type) \o data

\* Buffer.slice(from) / Buffer.slice(from, to)
slice(buf, from, to) == SubSeq(buf, from + 1, to)

\* Buffer.indexOf(0x00), -1 if there is none
indexOfZero(buf) ==
  IF \E i \in 1..Len(buf) : buf[i] = 0
    THEN (CHOOSE i \in 1..Len(buf) : buf[i] = 0 /\ \A j \in 1..(i - 1) : buf[j] # 0) - 1
    ELSE -1

\* the length check with the limit itself rejected
tooLargeInclusive(lengthValue) == lengthValue >= MAX_MESSAGE_SIZE

\* the length check of tryDecodeMessage
tooLarge(lengthValue) == lengthValue > MAX_MESSAGE_SIZE

Null(buf) == [kind |-> "null", buffer |-> buf, message |-> <<>>]

\* tryDecodeMessage from the length varint on: buf starts with a preamble
decodeFrame(buf, lim) ==
  LET len == varintDecode(buf, 1, lim)
      typeOffset == 1 + len.bytes
      typ == varintDecode(buf, typeOffset, lim)
      dataOffset == typeOffset + typ.bytes
      totalSize == dataOffset + len.value
  IN IF ~len.ok THEN Null(buf)
     ELSE IF tooLarge(len.value)
       THEN [kind |-> "throw", buffer |-> buf, message |-> <<>>]
     ELSE IF Len(buf) <= typeOffset THEN Null(buf)
     ELSE IF ~typ.ok THEN Null(buf)
     ELSE IF Len(buf) < totalSize THEN Null(buf)
     ELSE [kind |-> "message", buffer |-> slice(buf, totalSize, Len(buf)),
           message |-> [type |-> typ.value,
                        data |-> slice(buf, dataOffset, totalSize)]]

\* ProtocolHandler.tryDecodeMessage on the buffer buf
tryDecodeMessage(buf, lim) ==
  IF Len(buf) < 2 THEN Null(buf)
  ELSE IF buf[1] # 0
    THEN IF indexOfZero(buf) = -1 THEN Null(<<>>)
         ELSE decodeFrame(slice(buf, indexOfZero(buf), Len(buf)), lim)
  ELSE decodeFrame(buf, lim)

\* addData's loop with msgs decoded so far
RECURSIVE decodeLoop(_, _, _)
decodeLoop(buf, msgs, lim) ==
  IF Len(buf) = 0 THEN [buffer |-> buf, messages |-> msgs, threw |-> FALSE]
  ELSE LET r == tryDecodeMessage(buf, lim)
       IN CASE r.kind = "throw" ->
                 [buffer |-> r.buffer, messages |-> <<>>, threw |-> TRUE]
            [] r.kind = "null" ->
                 [buffer |-> r.buffer, messages |-> msgs, threw |-> FALSE]
            [] OTHER -> decodeLoop(r.buffer, Append(msgs, r.message), lim)

\* addData that forgets the bytes it could not decode yet
addDataForgetful(buf, data, lim) ==
  [decodeLoop(buf \o data, <<>>, lim) EXCEPT !.buffer = <<>>]

\* addData that returns after the first frame
addDataOnce(buf, data, lim) ==
  LET r == tryDecodeMessage(buf \o data, lim)
  IN [buffer |-> r.buffer, threw |-> r.kind = "throw",
      messages |-> IF r.kind = "message" THEN <<r.message>> ELSE <<>>]

\* ProtocolHandler.addData(data) on the buffer buf
addData(buf, data, lim) == decodeLoop(buf \o data, <<>>, lim)

\* ------------------------------------------ ProtocolHandler: streams
\* message types with a one-byte and with a two-byte varint
Types == {7, 200}

Repeat(b, n) == [i \in 1..n |-> b]

\* payloads: empty, a zero byte, two bytes, and 128 zero bytes (a two-byte
\* length varint)
Payloads == {<<>>, <<0>>, <<222, 173>>, Repeat(0, 128)}

Frames == {encodeMessage(t, d) : t \in Types, d \in Payloads}

RECURSIVE Concatenations(_)
Concatenations(n) ==
  IF n = 0 THEN {<<>>}
  ELSE {f \o r : f \in Frames, r \in Concatenations(n - 1)}

\* streams of 1..MaxFrames encoded frames
EncodedStreams == UNION {Concatenations(n) : n \in 1..MaxFrames}

\* a frame header declaring 1,048,577 payload bytes, and one declaring 1,048,576
Oversize == <<0>> \o varintEncode(MAX_MESSAGE_SIZE + 1)
AtLimit == <<0>> \o varintEncode(MAX_MESSAGE_SIZE) \o <<7>>

\* streams that are not a sequence of whole frames: oversize headers alone,
\* after a frame and after garbage, a header at the limit with the start of
\* its payload, length and type varints of ten continuation bytes, garbage
\* before a frame and garbage alone
RawStreams ==
  { Oversize, Oversize \o <<7>>, encodeMessage(7, <<>>) \o Oversize,
    <<5>> \o Oversize, AtLimit, AtLimit \o <<1, 2>>,
    <<0>> \o Repeat(128, 10) \o <<128>>, <<0, 0>> \o Repeat(128, 10) \o <<128>>,
    <<5, 0, 0, 7>>, <<5, 7, 9>>, <<5, 7>> \o encodeMessage(200, <<0>>) }

Streams == EncodedStreams \cup RawStreams

\* a fresh ProtocolHandler and the bytes the peer will send
InitCodec ==
  /\ encrypted = FALSE /\ password = FALSE /\ reconnect = FALSE
  /\ pingInterval = MaxPing /\ pingTimeout = 1
  /\ stream \in Streams /\ varintLimited \in BOOLEAN
  /\ Constructed

\* the socket delivers the next n bytes and the data handler calls addData
Feed(n) ==
  LET r == addData(buffer, SubSeq(stream, pos + 1, pos + n), varintLimited)
  IN Commit([Cur EXCEPT !.buffer = r.buffer, !.fault = r.threw,
                        !.messages = r.messages, !.got = @ \o r.messages,
                        !.pos = @ + n,
                        !.calls = IF @ < 2 THEN @ + 1 ELSE @])

AddDataChunk ==
  /\ ~fault
  /\ \E n \in 1..MaxChunk : pos + n <= Len(stream) /\ Feed(n)

\* all remaining bytes arrive in one chunk
AddDataRest ==
  /\ ~fault /\ pos < Len(stream)
  /\ Feed(Len(stream) - pos)

NextCodec == AddDataChunk \/ AddDataRest

SpecCodec == InitCodec /\ [][NextCodec]_vars

\* ------------------------------------------- ESPHomeClient: entities
\* An unencrypted client without reconnection that connects, enumerates the
\* device's entities and disconnects; no timer but the waiters' runs out.
InitEntities == Init /\ ~encrypted /\ ~reconnect

\* ESPHomeClient.listEntities()
ListEntities ==
  /\ ~encrypted
  /\ sendOk(Cur) => Len(waiters) < MaxWaiters /\ Len(wire) < MaxWaiters
  /\ Commit(listEntities(Cur))

NextEntities ==
  \/ ClientConnect
  \/ SocketConnect("manual")
  \/ SocketData
  \/ ListEntities
  \/ WaiterTimeout
  \/ ClientDisconnect

SpecEntities == InitEntities /\ [][NextEntities]_vars

\* --------------------------------------- ESPHomeClient: subscriptions
\* An unencrypted client without password or reconnection whose application
\* subscribes to states and logs and listens to the client's events.
InitSubs == Init /\ ~encrypted /\ ~reconnect /\ ~password

SubscribeStates(cb) == ~encrypted /\ Commit(subscribeStates(Cur, cb))

UnsubscribeStates(cb) == ~encrypted /\ Commit(unsubscribeStates(Cur, cb))

SubscribeLogs(cb) == ~encrypted /\ Commit(subscribeLogs(Cur, cb))

UnsubscribeLogs(cb) == ~encrypted /\ Commit(unsubscribeLogs(Cur, cb))

\* client.on(event, listener) with a listener that throws
OnThrowing(event) ==
  /\ ~encrypted /\ ~isDestroyed
  /\ Commit([Cur EXCEPT !.throwing = @ \cup {event}])

NextSubs ==
  \/ ClientConnect
  \/ SocketConnect("manual")
  \/ SocketData
  \/ \E cb \in 0..MaxCallbacks : SubscribeStates(cb)
  \/ \E cb \in 0..MaxCallbacks : UnsubscribeStates(cb)
  \/ \E cb \in 0..MaxCallbacks : SubscribeLogs(cb)
  \/ \E cb \in 0..MaxCallbacks : UnsubscribeLogs(cb)
  \/ \E e \in {"state", "logs"} : OnThrowing(e)
  \/ ClientDestroy

SpecSubs == InitSubs /\ [][NextSubs]_vars

\* ------------------------------------- Connection: chunks of frames
\* frames a device sends unasked at any time (GetTimeRequest asks the client
\* for the time)
ChunkFrames ==
  {[type |-> t, flag |-> FALSE, key |-> 0] :
     t \in {"PingRequest", "PingResponse", "DisconnectRequest", "GetTimeRequest"}}

\* the whole frames of one chunk, at most MaxBatch of them
Chunks == UNION {[1..n -> ChunkFrames] : n \in 0..MaxBatch}

\* chunks in which the response the client waits for is followed by further
\* frames
ResponseChunks ==
  {<<m>> \o ms :
     m \in {x \in Inbound : x.type \in {"HelloResponse", "ConnectResponse",
                                        "DeviceInfoResponse"}},
     ms \in {c \in Chunks : Len(c) \in 1..(MaxBatch - 1)}}

InitDispatch == Init /\ ~encrypted /\ ~reconnect /\ ~password

\* the socket's 'data' event for a chunk of several frames
SocketChunk ==
  /\ socket
  /\ \E ms \in Chunks \cup ResponseChunks, bad \in BOOLEAN :
       /\ ms = <<>> => bad
       /\ Commit(dataHandlerChunk(Cur, ms, bad))

NextDispatch ==
  \/ ClientConnect
  \/ SocketConnect("manual")
  \/ SocketData
  \/ SocketChunk
  \/ ClientDisconnect

SpecDispatch == InitDispatch /\ [][NextDispatch]_vars

\* ---------------------------------------------------- NoiseEncryption
\* initialize() up to its await: returns at once when already initialized
initialize(p) ==
  IF p.noise.initialized THEN [p EXCEPT !.ret = "initialize:already"]
  ELSE [p EXCEPT !.noise.pending = @ + 1, !.ret = "initialize:pending"]

\* initialize() from its await on: a new handshake state replaces the field
initializeResume(p) ==
  LET id == p.noise.created + 1
  IN [p EXCEPT !.noise.pending = @ - 1,
               !.noise.stale = IF @ > 0 THEN @ - 1 ELSE 0,
               !.noise.handshakeState = id,
               !.noise.action = "write", !.noise.created = id,
               !.noise.initialized = TRUE, !.ret = "initialize:done"]

\* the createNoise callback: the library is loaded and noiseLoadPromise
\* resolves, which resumes every initialize() that awaits it, one after the
\* other with nothing in between
RECURSIVE initializeResumeAll(_)
initializeResumeAll(p) ==
  IF p.noise.pending = 0 THEN p
  ELSE initializeResumeAll(initializeResume(p))

loadNoise(p) == initializeResumeAll([p EXCEPT !.noise.loaded = TRUE])

\* createHandshakeMessage1(): WriteMessage on the handshake state, which
\* accepts it once
createHandshakeMessage1(p) ==
  IF ~p.noise.initialized \/ p.noise.handshakeState = 0
    THEN [p EXCEPT !.ret = "message1:NotInitialized"]
  ELSE IF p.noise.action = "write"
    THEN [p EXCEPT !.noise.action = "read", !.ret = "message1:ok"]
  ELSE [p EXCEPT !.ret = "message1:Failed"]

\* processHandshakeMessage2(message): ReadMessage and Split; valid says
\* whether the message is the peer's answer to message 1
processHandshakeMessage2(p, valid) ==
  IF ~p.noise.initialized \/ p.noise.handshakeState = 0
    THEN [p EXCEPT !.ret = "message2:NotInitialized"]
  ELSE IF p.noise.action = "read" /\ valid
    THEN [p EXCEPT !.noise.sendCipher = p.noise.handshakeState,
                   !.noise.receiveCipher = p.noise.handshakeState,
                   !.noise.handshakeComplete = TRUE,
                   !.noise.handshakeState = 0, !.noise.action = "none",
                   !.noise.splits = @ + 1, !.ret = "message2:ok"]
  ELSE [p EXCEPT !.noise.action = IF @ = "read" THEN "failed" ELSE @,
                 !.ret = "message2:Failed"]

\* encrypt(plaintext)
encrypt(p) ==
  IF ~p.noise.handshakeComplete \/ p.noise.sendCipher = 0
    THEN [p EXCEPT !.ret = "encrypt:HandshakeNotComplete"]
  ELSE [p EXCEPT !.ret = "encrypt:ok"]

\* decrypt(ciphertext); valid says whether the ciphertext authenticates
decrypt(p, valid) ==
  IF ~p.noise.handshakeComplete \/ p.noise.receiveCipher = 0
    THEN [p EXCEPT !.ret = "decrypt:HandshakeNotComplete"]
  ELSE IF valid THEN [p EXCEPT !.ret = "decrypt:ok"]
  ELSE [p EXCEPT !.ret = "decrypt:Failed"]

\* a reset() that frees the handshake state only
resetKeepingCiphers(p) ==
  [p EXCEPT !.noise.handshakeState = 0, !.noise.action = "none",
            !.noise.initialized = FALSE,
            !.noise.created = 0, !.noise.splits = 0,
            !.noise.stale = p.noise.pending, !.ret = "reset"]

\* reset(); destroy() is reset()
reset(p) ==
  [p EXCEPT !.noise.handshakeState = 0, !.noise.action = "none",
            !.noise.sendCipher = 0, !.noise.receiveCipher = 0,
            !.noise.handshakeComplete = FALSE, !.noise.initialized = FALSE,
            !.noise.created = 0, !.noise.splits = 0,
            !.noise.stale = p.noise.pending, !.ret = "reset"]

\* One NoiseEncryption object and its callers.
InitNoise ==
  /\ encrypted = TRUE /\ password = FALSE /\ reconnect = FALSE
  /\ pingInterval = 1 /\ pingTimeout = MaxPing
  /\ stream = <<>> /\ varintLimited = FALSE
  /\ Constructed

Initialize ==
  /\ noise.initialized \/ noise.pending < MaxInit
  /\ Commit(initialize(Cur))

\* the library finishes loading, for this object or for another one (the
\* loaded instance is shared by all objects)
LoadNoise == ~noise.loaded /\ Commit(loadNoise(Cur))

\* with the library loaded, an initialize() resumes later in the task that
\* called it, after whatever that task does in between
InitializeResume ==
  noise.pending > 0 /\ noise.loaded /\ Commit(initializeResume(Cur))

CreateHandshakeMessage1 == Commit(createHandshakeMessage1(Cur))

ProcessHandshakeMessage2 ==
  \E valid \in BOOLEAN : Commit(processHandshakeMessage2(Cur, valid))

Encrypt == Commit(encrypt(Cur))

Decrypt == \E valid \in BOOLEAN : Commit(decrypt(Cur, valid))

Reset == Commit(reset(Cur))

NextNoise ==
  \/ Initialize
  \/ LoadNoise
  \/ InitializeResume
  \/ CreateHandshakeMessage1
  \/ ProcessHandshakeMessage2
  \/ Encrypt
  \/ Decrypt
  \/ Reset

SpecNoise == InitNoise /\ [][NextNoise]_vars

\* ------------------------------------------------------------- claims
Range(s) == {s[i] : i \in 1..Len(s)}

\* what a sendMessage call returned / what a connect() call returned at once /
\* how a pending ESPHomeClient.connect() ended
SendReturns == {"send:ok", "send:NotConnected"}
ConnectReturns == {"connect:destroyed", "connect:pending", "connect:done"}
ConnectOutcomes == {"connect:resolved", "connect:timeout", "connect:error",
                    "connect:ConnectionError", "connect:InvalidPassword"}

\* C1: a send of a non-handshake message made while the connection is
\* connected and not authenticated fails and writes nothing to the socket.
C1_UnauthenticatedSendFails ==
  ret \in SendReturns /\ connected /\ ~authenticated
    => ret = "send:NotConnected" /\ out = <<>>

\* C2: sendMessage made while the connection holds no open socket throws
\* 'Not connected' and writes nothing.
C2_NoSocketSendThrows ==
  ret \in SendReturns /\ ~socket => ret = "send:NotConnected" /\ out = <<>>

\* sendMessage was called after destroy() closed the socket of a connected
\* connection (state.connected is still true) and threw
C2_Witness ==
  ret = "send:NotConnected" /\ ~socket /\ connected /\ isDestroyed /\ ~encrypted

\* C3: with reconnect enabled, the step in which an established connection
\* is lost (no local disconnect(), not destroyed) leaves a reconnect pending:
\* the reconnect timer is armed or a reconnect attempt is in flight.
C3_LossSchedulesReconnect ==
  [][~lost /\ lost' /\ reconnect' /\ ~isDestroyed'
       => reconnectTimer' \/ recon'.phase # "none"]_vars

\* C4: while the connection is connected, not in deep-sleep mode and its ping
\* interval runs, no PingRequest stays unanswered for longer than pingTimeout:
\* by then the connection has been disconnected.
C4_PingTimeoutDisconnects ==
  connected /\ socket /\ ~hasDeepSleep /\ pingTimer >= 0 /\ pingPending
    => pingAge <= pingTimeout

\* C5: a step emits at most one `disconnect` event for each `connect` event
\* that has not been followed by a `disconnect` yet.
C5_OneDisconnectPerConnect ==
  [][Count("disconnect", ev')
       <= Count("connect", ev') + (IF connSinceDisc THEN 1 ELSE 0)]_vars

\* C6: a connect() call made on a destroyed Connection or EncryptedConnection
\* rejects with 'Connection has been destroyed', starts no connection
\* attempt and changes no field of the connection.
C6_DestroyedConnectRejects ==
  [][isDestroyed /\ ret' \in ConnectReturns
       => /\ ret' = "connect:destroyed"
          /\ UNCHANGED << socket, connected, authenticated, manual, recon,
                          orphans, reconnect, isReconnecting, isDestroyed,
                          reconnectTimer, pingTimer, pingTimeoutTimer,
                          hasDeepSleep, clientConnect, waiters >>]_vars

\* connect() was called and rejected on a connection that destroy() left
\* with state.connected still true
C6_Witness == ret = "connect:destroyed" /\ isDestroyed /\ connected

\* C7: a ESPHomeClient.connect() whose ConnectRequest was answered with
\* invalidPassword = true ends by rejecting with the invalid-password error.
C7_InvalidPasswordRejectsConnect ==
  [][pwRejected /\ ret' \in ConnectOutcomes
       => ret' = "connect:InvalidPassword"]_vars

\* C8: with a password, on each TCP connection HelloRequest is written
\* first, ConnectRequest only after HelloResponse, DeviceInfoRequest only
\* after an accepting ConnectResponse, the connection is authenticated only
\* after that response, `connected` is emitted only after DeviceInfoResponse
\* and at most once, and it resolves the pending connect().
C8_HandshakeInOrder ==
  password /\ ~encrypted =>
    /\ "HelloRequest" \in Range(out) => rcvd = {}
    /\ "ConnectRequest" \in Range(out) => "HelloResponse" \in rcvd
    /\ "DeviceInfoRequest" \in Range(out) => "ConnectResponse" \in rcvd
    /\ authenticated => "ConnectResponse" \in rcvd
    /\ nConnected > 0 => "DeviceInfoResponse" \in rcvd
    /\ "connected" \in Range(ev) => clientConnect # "hs"
    /\ nConnected <= 1

\* C9: no step taken in deep-sleep mode writes a PingRequest frame.
C9_DeepSleepNoPing == hasDeepSleep => "PingRequest" \notin Range(out)

\* a socket was connected while deep-sleep mode was already enabled, and the
\* ping interval was not started
C9_Witness ==
  hasDeepSleep /\ connected /\ socket /\ ev = <<"connect">> /\ pingTimer = -1

\* C10: from the deep-sleep DisconnectRequest until the user's next
\* connect(), the connection stays disconnected, no reconnect timer is armed
\* and no reconnect attempt is started.
C10_DeepSleepNoReconnect ==
  [][dsDisc' => /\ manual'.phase = "none" => ~connected'
                /\ ~reconnectTimer'
                /\ recon'.phase # "none" => recon.phase # "none"]_vars

\* the `data` handler reads a DisconnectRequest frame
RecvDisconnectRequest ==
  socket /\ Commit(dataHandler(Cur, [type |-> "DisconnectRequest", flag |-> FALSE]))

\* C11: the step that reads a DisconnectRequest on a connected connection
\* writes exactly a DisconnectResponse (sendMessage ran while the socket was
\* still open), leaves the connection disconnected with its socket closed,
\* emits one `disconnect` during which isExpectedDisconnect() is true, and
\* ends with the flag false again.
C11_DisconnectRequestAnswered ==
  [][connected /\ RecvDisconnectRequest
       => /\ out' = <<"DisconnectResponse">>
          /\ ~connected' /\ ~socket' /\ ~authenticated'
          /\ ev' = <<"disconnect">>
          /\ evExpected' = {TRUE}
          /\ ~expectedDisconnect']_vars

\* a DisconnectRequest was answered and the connection closed, on a device
\* that is not in deep-sleep mode
C11_Witness ==
  /\ out = <<"DisconnectResponse">> /\ ev = <<"disconnect">>
  /\ evExpected = {TRUE} /\ ~connected /\ ~socket /\ ~hasDeepSleep

\* the `data` handler reads a chunk on which the frame decoder throws
RecvDecoderFault ==
  socket /\ Commit(dataHandler(Cur, [type |-> "Garbage", flag |-> FALSE]))

\* C12: the step in which the decoder faults on a connected connection
\* leaves it disconnected with `disconnect` emitted and, when reconnect is
\* enabled and the connection is not destroyed, with a reconnect pending
\* (the reconnect timer armed or a reconnect attempt in flight).
C12_DecoderFaultReconnects ==
  [][connected /\ RecvDecoderFault
       => /\ ~connected' /\ ~socket'
          /\ ev' = <<"disconnect">>
          /\ reconnect /\ ~isDestroyed
                => reconnectTimer' \/ recon'.phase # "none"]_vars

\* C13: a fresh decoder given encodeMessage(T, payload) in one addData call
\* returns exactly the frame (T, payload) and keeps nothing in its buffer.
C13_FrameRoundTrip ==
  \A t \in Types, d \in Payloads :
    stream = encodeMessage(t, d) /\ calls = 1 /\ pos = Len(stream)
      => /\ ~fault
         /\ messages = <<[type |-> t, data |-> d]>>
         /\ buffer = <<>>

\* the frame of a two-byte type with 128 zero bytes came back from one call
C13_Witness ==
  /\ calls = 1 /\ pos = Len(stream) /\ buffer = <<>>
  /\ stream = encodeMessage(200, Repeat(0, 128))
  /\ messages = <<[type |-> 200, data |-> Repeat(0, 128)]>>

\* C14: once a stream of encoded frames has been fed in chunks, the frames
\* returned by the addData calls, in order, are the frames one addData call
\* on the whole stream returns.
C14_StreamingEquivalence ==
  stream \in EncodedStreams /\ pos = Len(stream)
    => ~fault /\ got = addData(<<>>, stream, varintLimited).messages

\* two frames were fed in several chunks and came back from different calls
C14_Witness ==
  /\ stream \in EncodedStreams /\ pos = Len(stream) /\ calls = 2
  /\ Len(got) = 2 /\ Len(messages) = 1

\* the buffer starts with a preamble and a whole length varint above the limit
OversizeAtHead(buf) ==
  /\ Len(buf) >= 2 /\ buf[1] = 0
  /\ LET len == varintDecode(buf, 1, FALSE)
     IN len.ok /\ len.value > 1024 * 1024

CompleteFrameAtHead(buf) ==
  /\ Len(buf) >= 1 /\ buf[1] = 0
  /\ LET len == varintDecode(buf, 1, FALSE)
         typ == varintDecode(buf, 1 + len.bytes, FALSE)
     IN /\ len.ok /\ len.value <= 1024 * 1024
        /\ typ.ok
        /\ Len(buf) >= 1 + len.bytes + typ.bytes + len.value

ContinuationRun(buf, off) ==
  Len(buf) >= off + 10 /\ \A k \in 1..10 : buf[off + k] >= 128

\* the length varint, or the type varint behind a whole length varint, at
\* the head of the buffer still has its continuation bit set after 10 bytes
MalformedVarintAtHead(buf) ==
  /\ Len(buf) >= 1 /\ buf[1] = 0
  /\ \/ ContinuationRun(buf, 1)
     \/ LET len == varintDecode(buf, 1, FALSE)
        IN len.ok /\ ContinuationRun(buf, 1 + len.bytes)

\* C17: addData does not return with a malformed varint at the head of the
\* buffer: it throws.
C17_MalformedVarintFatal == MalformedVarintAtHead(buffer) => fault

\* C18: the step in which the connection stops being connected leaves no
\* waitForMessage waiter pending.
C18_DisconnectRejectsWaiters ==
  [][connected /\ ~connected' => waiters' = <<>>]_vars

\* message types the handshake waits for
WaiterTypes == {"HelloResponse", "ConnectResponse", "DeviceInfoResponse"}

\* C19: no step takes more than one waiter of the same message type out of
\* the pending waiters: a message resolves the earliest one only.
C19_OneWaiterPerMessage ==
  [][\A t \in WaiterTypes : Count(t, waiters') >= Count(t, waiters) - 1]_vars

\* listEntities() calls awaiting ListEntitiesDoneResponse
Enumerating == Count("ListEntitiesDoneResponse", waiters)

\* C20: at most one listEntities() enumeration awaits ListEntitiesDoneResponse
\* at any time: a call made while an earlier one is pending starts no second
\* enumeration.
C20_OneEnumeration == Enumerating <= 1

\* C21: a listEntities() call resolves with exactly the catalog built from
\* the basic-kind descriptions read between its request and the Done
\* response, one entry per key, the last description of a key winning.
C21_ListResult ==
  \A i \in 1..Len(listed) : listed[i].result = listed[i].seen

\* the data handler reads the entity description of kind t for key k
RecvEntity(t, k) ==
  LET m == [type |-> t, flag |-> FALSE, key |-> k]
  IN socket /\ m \in Inbound /\ Commit(dataHandler(Cur, m))

\* C22: an inbound ListEntities<Kind>Response of any kind defined in
\* MessageType, read by a client that was not destroyed, is stored in the
\* catalog under its key and announced by one `entity` event.
C22_EveryKindCatalogued ==
  [][\A t \in EntityResponseTypes, k \in 1..MaxKeys :
       RecvEntity(t, k) /\ ~isDestroyed
         => <<k, t>> \in entities' /\ Count("entity", ev') = 1]_vars

\* the data handler reads the state message of kind t for key k
RecvState(t, k) ==
  LET m == [type |-> t, flag |-> FALSE, key |-> k]
  IN socket /\ m \in Inbound /\ Commit(dataHandler(Cur, m))

\* C23: when a state message of a handled kind is read, every callback
\* registered through subscribeStates is invoked exactly once with it, and
\* every callback of subscribeLogs exactly once with a SubscribeLogsResponse.
C23_EveryCallbackOnce ==
  [][/\ \A t \in StateTypes, k \in 1..MaxKeys :
          RecvState(t, k) /\ ~isDestroyed
            => \A i \in 1..Len(stateSubscriptions) :
                 Count(<<stateSubscriptions[i], t, k>>, invoked') = 1
     /\ RecvState("SubscribeLogsResponse", 0) /\ ~isDestroyed
          => \A i \in 1..Len(logSubscriptions) :
               Count(<<logSubscriptions[i], "SubscribeLogsResponse", 0>>,
                     invoked') = 1]_vars

\* authenticate() calls awaiting ConnectResponse
Authenticating == Count("ConnectResponse", waiters)

\* C24: at most one authenticate exchange is in flight; the guard is held
\* exactly while one is (so it is released however the call ends), and a
\* call rejected with 'Already authenticating' writes no ConnectRequest:
\* every ConnectRequest of a step belongs to the exchange left in flight.
C24_OneAuthenticate ==
  /\ Authenticating <= 1
  /\ isAuthenticating <=> Authenticating = 1
  /\ Count("ConnectRequest", out) <= Authenticating

\* an authenticate call was rejected while another exchange is in flight
C24_Witness ==
  "Already authenticating" \in thrown /\ isAuthenticating /\ Authenticating = 1

\* the data handler reads a DeviceInfoResponse whose deep-sleep flag is set
RecvDeepSleepInfo ==
  LET m == [type |-> "DeviceInfoResponse", flag |-> TRUE]
  IN socket /\ m \in Inbound /\ Commit(dataHandler(Cur, m))

\* C25: when the handshake completes on a DeviceInfoResponse whose deep-sleep
\* flag is set, deep-sleep mode is on and the ping timer stopped by the time
\* `connected` is emitted.
C25_DeepSleepConfigured ==
  [][RecvDeepSleepInfo /\ "connected" \in Range(ev')
       => hasDeepSleep' /\ pingTimer' = -1]_vars

\* C26: no connect() call makes more than three TCP connection attempts.
C26_AtMostThreeAttempts == manual.attempts <= 3 /\ recon.attempts <= 3

\* the data handler reads the chunk of frames ms (and then faulty bytes)
RecvChunk(ms, bad) == socket /\ Commit(dataHandlerChunk(Cur, ms, bad))

\* the types of the frames of ms that are not handled inside the Connection
Surfacing(ms) ==
  LET types == [i \in 1..Len(ms) |-> ms[i].type]
  IN SelectSeq(types, LAMBDA t : t \notin {"PingRequest", "PingResponse",
                                            "DisconnectRequest"})

\* C27: of the frames read in one chunk, exactly the ones that are not
\* PingRequest, PingResponse or DisconnectRequest are emitted as `message`
\* events, once each and in order, and as long as the connection stays
\* connected every PingRequest is answered by one PingResponse.
C27_Dispatch ==
  [][\A ms \in Chunks, bad \in BOOLEAN :
       RecvChunk(ms, bad) /\ connected
         => /\ delivered' = Surfacing(ms)
            /\ connected' =>
                 Count("PingResponse", out') =
                   Cardinality({i \in 1..Len(ms) : ms[i].type = "PingRequest"})]_vars

\* C28: at the `connect` event of a new socket the ConnectionState is
\* authenticated = false with apiVersion and serverInfo absent.
C28_StateResetOnConnect ==
  [][Count("connect", ev') > 0
       => ~authenticated' /\ ~apiVersion' /\ ~serverInfo']_vars

\* the connect timeout of establishConnection is armed while an attempt of
\* a connect() call waits for its socket
ConnectTimeoutArmed == manual.phase = "sock" \/ recon.phase = "sock"

\* C29: when disconnect() or destroy() returns, none of the Connection's
\* timers (connect timeout, ping interval, ping timeout, reconnect) is armed.
C29_NoTimerAfterDisconnect ==
  [][ClientDisconnect \/ ClientDestroy
       => /\ ~reconnectTimer' /\ pingTimer' = -1 /\ pingTimeoutTimer' = -1
          /\ ~ConnectTimeoutArmed']_vars

\* C30: an EncryptedConnection is connected only with an open socket,
\* becoming connected emits `connect`, and sendMessage succeeds whenever it
\* is connected.
C30_EncryptedConnected ==
  [][encrypted =>
       /\ connected' => socket'
       /\ ~connected /\ connected' => Count("connect", ev') > 0
       /\ EncSend /\ connected => ret' = "send:ok"]_vars

\* C31: while processHandshakeMessage2 has not succeeded since construction
\* or the last reset(), encrypt and decrypt throw 'Handshake not complete';
\* while in addition no initialize() has completed since then,
\* createHandshakeMessage1 and processHandshakeMessage2 throw too.
C31_ThrowsBeforeHandshake ==
  [][/\ Encrypt /\ noise.splits = 0
          => ret' = "encrypt:HandshakeNotComplete"
     /\ Decrypt /\ noise.splits = 0
          => ret' = "decrypt:HandshakeNotComplete"
     /\ CreateHandshakeMessage1 /\ noise.splits = 0 /\ noise.created = 0
          => ret' = "message1:NotInitialized"
     /\ ProcessHandshakeMessage2 /\ noise.splits = 0 /\ noise.created = 0
          => ret' = "message2:NotInitialized"]_vars

\* encrypt threw after message 1 was written and before message 2 arrived
C31_Witness ==
  /\ ret = "encrypt:HandshakeNotComplete"
  /\ noise.initialized /\ noise.action = "read" /\ noise.splits = 0

\* C32: within a session the ciphers are assigned at most once; once
\* assigned, handshakeComplete is true and there is no handshake state, and
\* until reset() no call changes the ciphers or works on a handshake state.
C32_CiphersAssignedOnce ==
  /\ [](noise.splits <= 1)
  /\ [](noise.splits = 1
          => noise.handshakeComplete /\ noise.handshakeState = 0)
  /\ [][noise.splits = 1 /\ ~Reset
          => /\ noise.sendCipher' = noise.sendCipher
             /\ noise.receiveCipher' = noise.receiveCipher
             /\ ret' \notin {"message1:ok", "message2:ok"}]_vars

\* C40: a session creates at most one handshake state; the handshake state
\* that wrote message 1 is not replaced by an initialize() that completes
\* later; and when the only initialize() calls that complete were made before
\* the last reset(), the session is not initialized afterwards.
C40_OneHandshakeState ==
  /\ [](noise.created <= 1)
  /\ [][noise.handshakeState # 0 /\ noise.action = "read" /\ ~Reset
          => noise.handshakeState' \in {noise.handshakeState, 0}]_vars
  /\ [][/\ noise.stale > 0 /\ noise.stale = noise.pending
         /\ ~noise.initialized /\ noise.pending' < noise.pending
          => ~noise.initialized']_vars

\* C33: once destroy() has returned the Connection does not become
\* connected, adopts no socket, makes no further connect attempt, starts no
\* ping timer and writes no frame.
C33_DestroyTerminal ==
  [][isDestroyed
       => /\ connected' => connected
          /\ socket' => socket
          /\ manual.attempts' <= manual.attempts
          /\ recon.attempts' <= recon.attempts
          /\ pingTimer' = -1
          /\ out' = <<>>]_vars

\* C34: while the Connection is not destroyed, isReconnecting implies that
\* the reconnect timer is armed or the reconnect's connect() is in flight.
C34_ReconnectingHasWork ==
  ~isDestroyed /\ isReconnecting => reconnectTimer \/ recon.phase # "none"

\* sockets that are open or being opened with handlers attached: the one in
\* this.socket, the one of each connect() attempt in flight, and the ones
\* that were replaced in this.socket without being closed
Sockets ==
  (IF socket THEN 1 ELSE 0) + (IF manual.phase = "sock" THEN 1 ELSE 0)
    + (IF recon.phase = "sock" THEN 1 ELSE 0) + orphans

\* C35: the Connection holds at most one socket that is open or being
\* opened, and the close of a superseded socket does not tear down the
\* current one.
C35_OneSocket ==
  /\ [](Sockets <= 1)
  /\ [][OrphanClose => socket' = socket /\ connected' = connected]_vars

\* C36: a step that delivers a message to the `message` listeners resolves
\* no waiter that was registered before the latest socket connected.
C36_NoStaleWaiterResolved ==
  [][Len(delivered') > 0 => oldWaiters' >= oldWaiters]_vars

\* C37: for a Connection driven by ESPHomeClient, authenticated implies
\* connected, in every state and in every state a `stateChange` event
\* carries.
C37_AuthenticatedImpliesConnected ==
  ~encrypted =>
    /\ authenticated => connected
    /\ <<FALSE, TRUE>> \notin stateChange

\* the position of the first DisconnectRequest of a chunk that has one
FirstDisconnectRequest(ms) ==
  CHOOSE i \in 1..Len(ms) :
    /\ ms[i].type = "DisconnectRequest"
    /\ \A j \in 1..(i - 1) : ms[j].type # "DisconnectRequest"

\* C38: when a chunk read on a connected connection holds a
\* DisconnectRequest, only the frames ahead of it are emitted as `message`
\* events and the step emits `disconnect` once.
C38_NothingAfterDisconnect ==
  [][\A ms \in Chunks :
       /\ RecvChunk(ms, FALSE) /\ connected
       /\ \E i \in 1..Len(ms) : ms[i].type = "DisconnectRequest"
       => /\ delivered' = Surfacing(SubSeq(ms, 1, FirstDisconnectRequest(ms) - 1))
          /\ Count("disconnect", ev') = 1]_vars

\* C39: when the whole frames of a chunk are followed by a header on which
\* the decoder throws, the frames ahead of it are still emitted as `message`
\* events, in order.
C39_NoFrameLostToFault ==
  [][\A ms \in Chunks :
       RecvChunk(ms, TRUE) /\ connected /\ Surfacing(ms) # <<>>
         => delivered' = Surfacing(ms)]_vars
====
